---- MODULE Spec2Model ----
(***************************************************************************)
(* Model of the identifier matching engine of                              *)
(* apps/server/convex/lib/model-matching.ts: canonicalizeSlug,             *)
(* normalizeSlug, normalizeModelId, matchAAtoOpenRouterWithIds,            *)
(* matchAAtoOpenRouter and buildMatchingMap.                               *)
(*                                                                         *)
(* A JavaScript string is a sequence of one-character strings, so that the *)
(* regular-expression replacements of the source are computed character by *)
(* character.  A Set<string> is the sequence of its members in insertion   *)
(* order, without duplicates (the order `for ... of` visits them in).  A   *)
(* `string | null` result is a sequence of zero or one strings.            *)
(***************************************************************************)
EXTENDS Naturals, Sequences, FiniteSets

VARIABLES
  str,            \* argument of a direct call of a string function
  out,            \* its result
  out2,           \* result of applying canonicalizeSlug to out
  aaSlug,         \* matchAAtoOpenRouterWithIds: aaSlug
  aaCreatorSlug,  \* matchAAtoOpenRouterWithIds: aaCreatorSlug
  openRouterIds,  \* the target ids: a Set (insertion order), or the list given to buildMatchingMap
  result,         \* return value of a match: <<>> is null, <<id>> is id
  aaModels,       \* buildMatchingMap: the list of source records
  matchingMap,    \* buildMatchingMap: the returned Map (a function slug -> id)
  pc              \* position of the call

vars == <<str, out, out2, aaSlug, aaCreatorSlug, openRouterIds, result, aaModels, matchingMap, pc>>

(***************************************************************************)
(* Bounds of the model.                                                    *)
(***************************************************************************)
\* longest string given to a string function called directly
MaxLen == 5

\* largest number of target ids given to a match
MaxIds == 2

\* largest number of source records given to buildMatchingMap
MaxRecords == 2

(***************************************************************************)
(* Characters and strings.                                                 *)
(***************************************************************************)
UpperCase == <<"A","B","C","D","E","F","G","H","I","J","K","L","M",
               "N","O","P","Q","R","S","T","U","V","W","X","Y","Z">>

LowerCase == <<"a","b","c","d","e","f","g","h","i","j","k","l","m",
               "n","o","p","q","r","s","t","u","v","w","x","y","z">>

Digits == {"0","1","2","3","4","5","6","7","8","9"}

\* what \s matches, and what trim() removes
WhiteSpace == {" ", "\t", "\n", "\r"}

\* the character class [._\s]
SeparatorChars == {".", "_"} \cup WhiteSpace

Range(s) == {s[i] : i \in DOMAIN s}

Front(s) == SubSeq(s, 1, Len(s) - 1)

Last(s) == s[Len(s)]

LowerOf == [c \in Range(UpperCase) |-> LowerCase[CHOOSE i \in DOMAIN UpperCase : UpperCase[i] = c]]

ToLowerChar(c) == IF c \in DOMAIN LowerOf THEN LowerOf[c] ELSE c

\* String.prototype.toLowerCase
toLowerCase(s) == [i \in DOMAIN s |-> ToLowerChar(s[i])]

RECURSIVE TrimStart(_)
TrimStart(s) ==
  IF s # <<>> /\ Head(s) \in WhiteSpace THEN TrimStart(Tail(s)) ELSE s

RECURSIVE TrimEnd(_)
TrimEnd(s) ==
  IF s # <<>> /\ Last(s) \in WhiteSpace THEN TrimEnd(Front(s)) ELSE s

\* String.prototype.trim
trim(s) == TrimEnd(TrimStart(s))

\* s.replace(/[c]+/g, "-") for a character class c: every maximal run of
\* characters of the class becomes one "-"
RECURSIVE ReplaceRuns(_, _)
ReplaceRuns(s, class) ==
  IF s = <<>> THEN <<>>
  ELSE IF Head(s) \in class
    THEN IF Len(s) > 1 /\ s[2] \in class
           THEN ReplaceRuns(Tail(s), class)
           ELSE <<"-">> \o ReplaceRuns(Tail(s), class)
    ELSE <<Head(s)>> \o ReplaceRuns(Tail(s), class)

\* s.replace(/^-|-$/g, ""): one "-" at the start and one "-" at the end
StripEdgeDashes(s) ==
  LET s1 == IF s # <<>> /\ Head(s) = "-" THEN Tail(s) ELSE s
  IN  IF s1 # <<>> /\ Last(s1) = "-" THEN Front(s1) ELSE s1

\* a plausible slip: the edge dashes are stripped before the separators are
\* turned into dashes
canonicalizeSlug_StripFirst(slug) ==
  ReplaceRuns(ReplaceRuns(StripEdgeDashes(trim(toLowerCase(slug))), SeparatorChars), {"-"})

canonicalizeSlug(slug) ==
  StripEdgeDashes(ReplaceRuns(ReplaceRuns(trim(toLowerCase(slug)), SeparatorChars), {"-"}))

\* the largest i with s[i] = "-", or 0
LastDash(s) ==
  LET dashes == {i \in DOMAIN s : s[i] = "-"}
  IN  IF dashes = {} THEN 0 ELSE CHOOSE i \in dashes : \A j \in dashes : j <= i

\* s ends with "-" followed by three or four digits
EndsWithVersion(s) ==
  LET d == LastDash(s)
  IN  /\ d > 0
      /\ Len(s) - d \in {3, 4}
      /\ \A i \in (d + 1)..Len(s) : s[i] \in Digits

\* s.replace(/(?:-\d{3,4})+$/, ""): the longest chain of groups "-ddd" or
\* "-dddd" that ends the string is removed
RECURSIVE StripVersionSuffix(_)
StripVersionSuffix(s) ==
  IF EndsWithVersion(s) THEN StripVersionSuffix(SubSeq(s, 1, LastDash(s) - 1)) ELSE s

normalizeSlug(slug) == StripVersionSuffix(canonicalizeSlug(slug))

\* String.prototype.split("/"): the pieces between the "/", at least one
RECURSIVE Split(_)
Split(s) ==
  LET slashes == {i \in DOMAIN s : s[i] = "/"}
  IN  IF slashes = {} THEN <<s>>
      ELSE LET i == CHOOSE k \in slashes : \A j \in slashes : k <= j
           IN  <<SubSeq(s, 1, i - 1)>> \o Split(SubSeq(s, i + 1, Len(s)))

\* const [creatorSlug = "", modelSlug = ""] = modelId.split("/"): the first
\* two pieces, "" for a piece that is missing; later pieces are dropped
normalizeModelId(modelId) ==
  LET parts == Split(modelId)
      creatorSlug == parts[1]
      modelSlug == IF Len(parts) >= 2 THEN parts[2] ELSE <<>>
  IN  normalizeSlug(creatorSlug) \o <<"/">> \o normalizeSlug(modelSlug)

(***************************************************************************)
(* The static tables.                                                      *)
(***************************************************************************)
POPULAR_MODEL_IDS ==
  << (* anthropic/claude-sonnet-4 *)
     <<"a","n","t","h","r","o","p","i","c","/","c","l","a","u","d","e","-","s","o","n","n","e","t","-","4">>,
     (* anthropic/claude-3.5-sonnet *)
     <<"a","n","t","h","r","o","p","i","c","/","c","l","a","u","d","e","-","3",".","5","-","s","o","n","n","e","t">>,
     (* anthropic/claude-3.7-sonnet *)
     <<"a","n","t","h","r","o","p","i","c","/","c","l","a","u","d","e","-","3",".","7","-","s","o","n","n","e","t">>,
     (* anthropic/claude-3.5-haiku *)
     <<"a","n","t","h","r","o","p","i","c","/","c","l","a","u","d","e","-","3",".","5","-","h","a","i","k","u">>,
     (* openai/gpt-4o *)
     <<"o","p","e","n","a","i","/","g","p","t","-","4","o">>,
     (* openai/gpt-4o-mini *)
     <<"o","p","e","n","a","i","/","g","p","t","-","4","o","-","m","i","n","i">>,
     (* openai/gpt-4.1 *)
     <<"o","p","e","n","a","i","/","g","p","t","-","4",".","1">>,
     (* openai/gpt-4.1-mini *)
     <<"o","p","e","n","a","i","/","g","p","t","-","4",".","1","-","m","i","n","i">>,
     (* openai/o3-mini *)
     <<"o","p","e","n","a","i","/","o","3","-","m","i","n","i">>,
     (* google/gemini-2.5-flash *)
     <<"g","o","o","g","l","e","/","g","e","m","i","n","i","-","2",".","5","-","f","l","a","s","h">>,
     (* google/gemini-2.5-pro *)
     <<"g","o","o","g","l","e","/","g","e","m","i","n","i","-","2",".","5","-","p","r","o">>,
     (* google/gemini-2.0-flash-001 *)
     <<"g","o","o","g","l","e","/","g","e","m","i","n","i","-","2",".","0","-","f","l","a","s","h","-","0","0","1">>,
     (* deepseek/deepseek-chat *)
     <<"d","e","e","p","s","e","e","k","/","d","e","e","p","s","e","e","k","-","c","h","a","t">>,
     (* deepseek/deepseek-chat-v3.1 *)
     <<"d","e","e","p","s","e","e","k","/","d","e","e","p","s","e","e","k","-","c","h","a","t","-","v","3",".","1">>,
     (* deepseek/deepseek-r1 *)
     <<"d","e","e","p","s","e","e","k","/","d","e","e","p","s","e","e","k","-","r","1">>,
     (* meta-llama/llama-3.3-70b-instruct *)
     <<"m","e","t","a","-","l","l","a","m","a","/","l","l","a","m","a","-","3",".","3","-","7","0","b","-","i","n","s","t","r","u","c","t">>,
     (* x-ai/grok-3 *)
     <<"x","-","a","i","/","g","r","o","k","-","3">>,
     (* mistralai/mistral-large-2411 *)
     <<"m","i","s","t","r","a","l","a","i","/","m","i","s","t","r","a","l","-","l","a","r","g","e","-","2","4","1","1">>,
     (* qwen/qwen-2.5-72b-instruct *)
     <<"q","w","e","n","/","q","w","e","n","-","2",".","5","-","7","2","b","-","i","n","s","t","r","u","c","t">> >>

MANUAL_OVERRIDES ==
  << (* claude-3-5-sonnet -> anthropic/claude-3.5-sonnet *)
     << <<"c","l","a","u","d","e","-","3","-","5","-","s","o","n","n","e","t">>,
        <<"a","n","t","h","r","o","p","i","c","/","c","l","a","u","d","e","-","3",".","5","-","s","o","n","n","e","t">> >>,
     (* claude-3-7-sonnet -> anthropic/claude-3.7-sonnet *)
     << <<"c","l","a","u","d","e","-","3","-","7","-","s","o","n","n","e","t">>,
        <<"a","n","t","h","r","o","p","i","c","/","c","l","a","u","d","e","-","3",".","7","-","s","o","n","n","e","t">> >>,
     (* claude-3-5-haiku -> anthropic/claude-3.5-haiku *)
     << <<"c","l","a","u","d","e","-","3","-","5","-","h","a","i","k","u">>,
        <<"a","n","t","h","r","o","p","i","c","/","c","l","a","u","d","e","-","3",".","5","-","h","a","i","k","u">> >>,
     (* claude-sonnet-4 -> anthropic/claude-sonnet-4 *)
     << <<"c","l","a","u","d","e","-","s","o","n","n","e","t","-","4">>,
        <<"a","n","t","h","r","o","p","i","c","/","c","l","a","u","d","e","-","s","o","n","n","e","t","-","4">> >>,
     (* deepseek-v3 -> deepseek/deepseek-chat *)
     << <<"d","e","e","p","s","e","e","k","-","v","3">>,
        <<"d","e","e","p","s","e","e","k","/","d","e","e","p","s","e","e","k","-","c","h","a","t">> >>,
     (* deepseek-v3-0324 -> deepseek/deepseek-chat-v3.1 *)
     << <<"d","e","e","p","s","e","e","k","-","v","3","-","0","3","2","4">>,
        <<"d","e","e","p","s","e","e","k","/","d","e","e","p","s","e","e","k","-","c","h","a","t","-","v","3",".","1">> >>,
     (* deepseek-r1 -> deepseek/deepseek-r1 *)
     << <<"d","e","e","p","s","e","e","k","-","r","1">>,
        <<"d","e","e","p","s","e","e","k","/","d","e","e","p","s","e","e","k","-","r","1">> >>,
     (* llama-3-3-70b -> meta-llama/llama-3.3-70b-instruct *)
     << <<"l","l","a","m","a","-","3","-","3","-","7","0","b">>,
        <<"m","e","t","a","-","l","l","a","m","a","/","l","l","a","m","a","-","3",".","3","-","7","0","b","-","i","n","s","t","r","u","c","t">> >>,
     (* gpt-4o -> openai/gpt-4o *)
     << <<"g","p","t","-","4","o">>,
        <<"o","p","e","n","a","i","/","g","p","t","-","4","o">> >>,
     (* gpt-4o-mini -> openai/gpt-4o-mini *)
     << <<"g","p","t","-","4","o","-","m","i","n","i">>,
        <<"o","p","e","n","a","i","/","g","p","t","-","4","o","-","m","i","n","i">> >>,
     (* o3-mini -> openai/o3-mini *)
     << <<"o","3","-","m","i","n","i">>,
        <<"o","p","e","n","a","i","/","o","3","-","m","i","n","i">> >>,
     (* grok-3 -> x-ai/grok-3 *)
     << <<"g","r","o","k","-","3">>,
        <<"x","-","a","i","/","g","r","o","k","-","3">> >>,
     (* mistral-large-2411 -> mistralai/mistral-large-2411 *)
     << <<"m","i","s","t","r","a","l","-","l","a","r","g","e","-","2","4","1","1">>,
        <<"m","i","s","t","r","a","l","a","i","/","m","i","s","t","r","a","l","-","l","a","r","g","e","-","2","4","1","1">> >>,
     (* qwen-2-5-72b-instruct -> qwen/qwen-2.5-72b-instruct *)
     << <<"q","w","e","n","-","2","-","5","-","7","2","b","-","i","n","s","t","r","u","c","t">>,
        <<"q","w","e","n","/","q","w","e","n","-","2",".","5","-","7","2","b","-","i","n","s","t","r","u","c","t">> >>,
     (* gemini-2-5-flash -> google/gemini-2.5-flash *)
     << <<"g","e","m","i","n","i","-","2","-","5","-","f","l","a","s","h">>,
        <<"g","o","o","g","l","e","/","g","e","m","i","n","i","-","2",".","5","-","f","l","a","s","h">> >>,
     (* gemini-2-5-pro -> google/gemini-2.5-pro *)
     << <<"g","e","m","i","n","i","-","2","-","5","-","p","r","o">>,
        <<"g","o","o","g","l","e","/","g","e","m","i","n","i","-","2",".","5","-","p","r","o">> >>,
     (* gemini-2-0-flash -> google/gemini-2.0-flash-001 *)
     << <<"g","e","m","i","n","i","-","2","-","0","-","f","l","a","s","h">>,
        <<"g","o","o","g","l","e","/","g","e","m","i","n","i","-","2",".","0","-","f","l","a","s","h","-","0","0","1">> >>,
     (* gpt-4-1 -> openai/gpt-4.1 *)
     << <<"g","p","t","-","4","-","1">>,
        <<"o","p","e","n","a","i","/","g","p","t","-","4",".","1">> >>,
     (* gpt-4-1-mini -> openai/gpt-4.1-mini *)
     << <<"g","p","t","-","4","-","1","-","m","i","n","i">>,
        <<"o","p","e","n","a","i","/","g","p","t","-","4",".","1","-","m","i","n","i">> >> >>

(***************************************************************************)
(* Direct calls of the string functions.                                   *)
(***************************************************************************)
\* the characters of the strings given to the string functions
Alphabet == {"a", "A", "1", "-", ".", "_", " ", "/"}

\* the sequences of at most n members of S
SeqsUpTo(S, n) == UNION {[1..k -> S] : k \in 0..n}

Idle ==
  /\ aaSlug = <<>>
  /\ aaCreatorSlug = <<>>
  /\ openRouterIds = <<>>
  /\ result = <<>>
  /\ aaModels = <<>>
  /\ matchingMap = <<>>

InitPure ==
  /\ str \in SeqsUpTo(Alphabet, MaxLen)
  /\ out = <<>>
  /\ out2 = <<>>
  /\ pc = "start"
  /\ Idle

CallCanonicalizeSlug ==
  /\ pc = "start"
  /\ out' = canonicalizeSlug(str)
  /\ pc' = "canonicalized"
  /\ UNCHANGED <<str, out2, aaSlug, aaCreatorSlug, openRouterIds, result, aaModels, matchingMap>>

CallCanonicalizeSlugAgain ==
  /\ pc = "canonicalized"
  /\ out2' = canonicalizeSlug(out)
  /\ pc' = "recanonicalized"
  /\ UNCHANGED <<str, out, aaSlug, aaCreatorSlug, openRouterIds, result, aaModels, matchingMap>>

CallNormalizeSlug ==
  /\ pc = "start"
  /\ out' = normalizeSlug(str)
  /\ pc' = "slugNormalized"
  /\ UNCHANGED <<str, out2, aaSlug, aaCreatorSlug, openRouterIds, result, aaModels, matchingMap>>

CallNormalizeModelId ==
  /\ pc = "start"
  /\ out' = normalizeModelId(str)
  /\ pc' = "idNormalized"
  /\ UNCHANGED <<str, out2, aaSlug, aaCreatorSlug, openRouterIds, result, aaModels, matchingMap>>

NextPure ==
  \/ CallCanonicalizeSlug
  \/ CallCanonicalizeSlugAgain
  \/ CallNormalizeSlug
  \/ CallNormalizeModelId

SpecPure == InitPure /\ [][NextPure]_vars

\* C3: canonicalize is idempotent: canonicalize(canonicalize(s)) = canonicalize(s)
\* for every string s.
C3_CanonicalizeIdempotent == pc = "recanonicalized" => out2 = out

\* C3's case: a string with separators at both ends whose canonical form is
\* not empty has been canonicalized twice
C3_Witness ==
  /\ pc = "recanonicalized"
  /\ Len(str) >= 3
  /\ Head(str) \in SeparatorChars \cup {"-"}
  /\ Last(str) \in SeparatorChars \cup {"-"}
  /\ out # <<>>

\* C7: the normalized composite key splits the id on its first "/" only: an
\* id without "/" has an empty creator part and is the model part as a whole;
\* in an id with several "/" all that follows the first is the model part.
C7_SplitOnFirstSlash ==
  pc = "idNormalized" =>
    LET slashes == {i \in DOMAIN str : str[i] = "/"}
    IN  IF slashes = {}
          THEN out = <<"/">> \o normalizeSlug(str)
          ELSE LET i == CHOOSE k \in slashes : \A j \in slashes : k <= j
               IN  out = normalizeSlug(SubSeq(str, 1, i - 1)) \o <<"/">>
                           \o normalizeSlug(SubSeq(str, i + 1, Len(str)))

(***************************************************************************)
(* matchAAtoOpenRouterWithIds.                                             *)
(***************************************************************************)
\* Set.prototype.has
has(ids, id) == \E i \in DOMAIN ids : ids[i] = id

\* MANUAL_OVERRIDES[key]: <<>> when the table has no such key
Lookup(key) ==
  LET entries == {i \in DOMAIN MANUAL_OVERRIDES : MANUAL_OVERRIDES[i][1] = key}
  IN  IF entries = {} THEN <<>> ELSE <<MANUAL_OVERRIDES[CHOOSE i \in entries : TRUE][2]>>

\* a plausible slip: the table is looked up with the version suffix stripped
manualOverride_Normalized(slug) == Lookup(normalizeSlug(slug))

\* MANUAL_OVERRIDES[canonicalizeSlug(aaSlug)].  (A key the object inherits, such as "constructor", gives a value that
\* is no string and so is in no Set<string>: a miss as well.)
manualOverride(slug) == Lookup(canonicalizeSlug(slug))

\* a plausible slip: the override is returned without looking it up in the set
OverrideTier_NoHas(slug, ids) == manualOverride(slug)

\* if (manualOverride && openRouterIds.has(manualOverride)) return manualOverride
OverrideTier(slug, ids) ==
  LET m == manualOverride(slug)
  IN  IF m # <<>> /\ m[1] # <<>> /\ has(ids, m[1]) THEN m ELSE <<>>

exactMatch(slug, creator) == toLowerCase(creator) \o <<"/">> \o toLowerCase(slug)

\* if (openRouterIds.has(exactMatch)) return exactMatch
ExactTier(slug, creator, ids) ==
  LET exact == exactMatch(slug, creator)
  IN  IF has(ids, exact) THEN <<exact>> ELSE <<>>

normalizedMatch(slug, creator) == normalizeSlug(creator) \o <<"/">> \o normalizeSlug(slug)

\* a plausible slip: the loop gives up after the first candidate
NormalizedTier_FirstOnly(slug, creator, ids) ==
  IF ids # <<>> /\ normalizeModelId(ids[1]) = normalizedMatch(slug, creator)
    THEN <<ids[1]>>
    ELSE <<>>

\* a plausible slip: only the model part of a candidate is compared
NormalizedTier_SlugOnly(slug, creator, ids) ==
  LET key == normalizeSlug(slug)
      hits == {i \in DOMAIN ids : Len(Split(ids[i])) >= 2 /\ normalizeSlug(Split(ids[i])[2]) = key}
  IN  IF hits = {} THEN <<>> ELSE <<ids[CHOOSE i \in hits : \A j \in hits : i <= j]>>

\* for (const openRouterId of openRouterIds)
\*   if (normalizeModelId(openRouterId) === normalizedMatch) return openRouterId
NormalizedTier(slug, creator, ids) ==
  LET key == normalizedMatch(slug, creator)
      hits == {i \in DOMAIN ids : normalizeModelId(ids[i]) = key}
  IN  IF hits = {} THEN <<>> ELSE <<ids[CHOOSE i \in hits : \A j \in hits : i <= j]>>

\* a plausible slip: the exact tier is tried before the override tier
matchAAtoOpenRouterWithIds_ExactFirst(slug, creator, ids) ==
  LET override == OverrideTier(slug, ids)
      exact == ExactTier(slug, creator, ids)
  IN  IF exact # <<>> THEN exact
      ELSE IF override # <<>> THEN override
      ELSE NormalizedTier(slug, creator, ids)

matchAAtoOpenRouterWithIds(slug, creator, ids) ==
  LET override == OverrideTier(slug, ids)
      exact == ExactTier(slug, creator, ids)
  IN  IF override # <<>> THEN override
      ELSE IF exact # <<>> THEN exact
      ELSE NormalizedTier(slug, creator, ids)

\* matchAAtoOpenRouter: the match against POPULAR_MODEL_IDS
matchAAtoOpenRouter(slug, creator) ==
  matchAAtoOpenRouterWithIds(slug, creator, POPULAR_MODEL_IDS)

(***************************************************************************)
(* Calls of the matcher with the caller's set of target ids.               *)
(***************************************************************************)
\* source slugs given to a match
SlugPool ==
  { (* "" *)
    <<>>,
    (* " " *)
    <<" ">>,
    (* "GPT_4o" *)
    <<"G","P","T","_","4","o">>,
    (* "deepseek-v3" *)
    <<"d","e","e","p","s","e","e","k","-","v","3">>,
    (* "gemini-2-0-flash-001" *)
    <<"g","e","m","i","n","i","-","2","-","0","-","f","l","a","s","h","-","0","0","1">>,
    (* "m" *)
    <<"m">>,
    (* "m-001" *)
    <<"m","-","0","0","1">>,
    (* "M.1-2024" *)
    <<"M",".","1","-","2","0","2","4">>,
    (* "totally-unknown-model" *)
    <<"t","o","t","a","l","l","y","-","u","n","k","n","o","w","n","-","m","o","d","e","l">> }

\* source creator slugs given to a match
CreatorPool ==
  { (* "openai" *)
    <<"o","p","e","n","a","i">>,
    (* "deepseek" *)
    <<"d","e","e","p","s","e","e","k">>,
    (* "google" *)
    <<"g","o","o","g","l","e">>,
    (* "Acme" *)
    <<"A","c","m","e">>,
    (* "acme-2024" *)
    <<"a","c","m","e","-","2","0","2","4">>,
    (* "unknown" *)
    <<"u","n","k","n","o","w","n">> }

\* target ids a caller may supply, well-formed and malformed
TargetPool ==
  { (* "openai/gpt-4o" *)
    <<"o","p","e","n","a","i","/","g","p","t","-","4","o">>,
    (* "deepseek/deepseek-chat" *)
    <<"d","e","e","p","s","e","e","k","/","d","e","e","p","s","e","e","k","-","c","h","a","t">>,
    (* "deepseek/deepseek-v3" *)
    <<"d","e","e","p","s","e","e","k","/","d","e","e","p","s","e","e","k","-","v","3">>,
    (* "google/gemini-2.0-flash-001" *)
    <<"g","o","o","g","l","e","/","g","e","m","i","n","i","-","2",".","0","-","f","l","a","s","h","-","0","0","1">>,
    (* "acme/m" *)
    <<"a","c","m","e","/","m">>,
    (* "acme/m-001" *)
    <<"a","c","m","e","/","m","-","0","0","1">>,
    (* "acme/m-1/x" *)
    <<"a","c","m","e","/","m","-","1","/","x">>,
    (* "acme" *)
    <<"a","c","m","e">> }

\* the sequences of at most n distinct members of S: the Sets of at most n
\* members of S, in every insertion order
NoDupSeqs(S, n) ==
  {s \in SeqsUpTo(S, n) : \A i, j \in DOMAIN s : s[i] = s[j] => i = j}

NoCall ==
  /\ str = <<>>
  /\ out = <<>>
  /\ out2 = <<>>

Init ==
  /\ aaSlug \in SlugPool
  /\ aaCreatorSlug \in CreatorPool
  /\ openRouterIds \in NoDupSeqs(TargetPool, MaxIds)
  /\ result = <<>>
  /\ aaModels = <<>>
  /\ matchingMap = <<>>
  /\ pc = "call"
  /\ NoCall

CallMatchWithIds ==
  /\ pc = "call"
  /\ result' = matchAAtoOpenRouterWithIds(aaSlug, aaCreatorSlug, openRouterIds)
  /\ pc' = "matched"
  /\ UNCHANGED <<str, out, out2, aaSlug, aaCreatorSlug, openRouterIds, aaModels, matchingMap>>

Next == CallMatchWithIds

Spec == Init /\ [][Next]_vars

(***************************************************************************)
(* Properties of a match.                                                  *)
(***************************************************************************)
\* the Override Table has an entry for canonicalize(aaSlug) whose target is
\* in the set
OverrideHits ==
  LET key == canonicalizeSlug(aaSlug)
  IN  {i \in DOMAIN MANUAL_OVERRIDES :
         MANUAL_OVERRIDES[i][1] = key /\ has(openRouterIds, MANUAL_OVERRIDES[i][2])}

OverrideMisses == OverrideHits = {}

ExactComposite == toLowerCase(aaCreatorSlug) \o <<"/">> \o toLowerCase(aaSlug)

SourceKey == normalizeSlug(aaCreatorSlug) \o <<"/">> \o normalizeSlug(aaSlug)

\* the members of the set whose normalized composite key is the source's
KeyMatches ==
  LET key == SourceKey
  IN  {id \in Range(openRouterIds) : normalizeModelId(id) = key}

\* the number of "/" in s
Slashes(s) == Cardinality({i \in DOMAIN s : s[i] = "/"})

\* C1: the tiers are applied in strict priority order, first hit wins: an
\* override whose target is in the set is returned whatever the creator and
\* whatever else is in the set; an override whose target is absent is a miss
\* and the result is the one the exact and fallback tiers give; and when the
\* override tier misses and the lowercased "<creator>/<slug>" is in the set,
\* that string is returned.
C1_TierPriority ==
  pc = "matched" =>
    LET hits == OverrideHits
        exact == ExactComposite
        matches == KeyMatches
    IN  /\ \A i \in hits : result = <<MANUAL_OVERRIDES[i][2]>>
        /\ (hits = {} /\ has(openRouterIds, exact)) => result = <<exact>>
        /\ (hits = {} /\ ~has(openRouterIds, exact)) =>
             \/ result = <<>> /\ matches = {}
             \/ \E i \in DOMAIN openRouterIds :
                  /\ result = <<openRouterIds[i]>>
                  /\ openRouterIds[i] \in matches
                  /\ \A j \in 1..(i - 1) : openRouterIds[j] \notin matches

\* C1's case: the override wins although the exact composite, another member,
\* is in the set too
C1_Witness ==
  /\ pc = "matched"
  /\ \E i \in OverrideHits :
       /\ result = <<MANUAL_OVERRIDES[i][2]>>
       /\ ExactComposite # MANUAL_OVERRIDES[i][2]
       /\ has(openRouterIds, ExactComposite)

\* C2: when the override tier and the exact tier both miss, the result is
\* non-null exactly when some member of the set has the source pair's
\* normalized composite key, and the result is such a member; when no tier
\* hits the result is null.
C2_FallbackIffKeyMatch ==
  (pc = "matched" /\ OverrideMisses /\ ~has(openRouterIds, ExactComposite)) =>
    LET matches == KeyMatches
    IN  /\ result # <<>> <=> matches # {}
        /\ result # <<>> => result[1] \in matches

\* C2's case: the fallback tier finds a member that is not the first one the
\* loop visits
C2_Witness ==
  /\ pc = "matched"
  /\ OverrideMisses
  /\ ~has(openRouterIds, ExactComposite)
  /\ Len(openRouterIds) >= 2
  /\ result = <<openRouterIds[2]>>
  /\ Slashes(result[1]) = 1
  /\ result[1] # SourceKey

\* C6: the version suffix is stripped from the model part only: a fallback
\* match pairs a source and a target whose creators, canonicalized with the
\* suffix kept, are equal.
C6_CreatorKeepsSuffix ==
  (/\ pc = "matched"
   /\ OverrideMisses
   /\ ~has(openRouterIds, ExactComposite)
   /\ canonicalizeSlug(aaSlug) # <<>>
   /\ result # <<>>
   /\ Slashes(result[1]) = 1) =>
    canonicalizeSlug(Split(result[1])[1]) = canonicalizeSlug(aaCreatorSlug)

\* C8: a match never returns a target id without a "/", and a source whose
\* slug is empty, or canonicalizes to the empty string, gets null.
C8_MalformedNoMatch ==
  pc = "matched" =>
    /\ result # <<>> => Slashes(result[1]) >= 1
    /\ canonicalizeSlug(aaSlug) = <<>> => result = <<>>

\* the iteration orders of a Set
Permutations(ids) == {p \in [DOMAIN ids -> Range(ids)] : Range(p) = Range(ids)}

\* no two distinct members of the set have the same normalized composite key
NoKeyCollision ==
  LET keys == [i \in DOMAIN openRouterIds |-> normalizeModelId(openRouterIds[i])]
  IN  \A i, j \in DOMAIN keys : keys[i] = keys[j] => i = j

\* C10: a match does not depend on the iteration order of the set when no
\* two members have the same normalized composite key; it depends on the
\* order only when the fallback tier is reached and two or more members
\* have the source's key.
C10_OrderIndependent ==
  pc = "matched" =>
    LET distinctKeys == NoKeyCollision
        fallbackTie == /\ OverrideMisses
                       /\ ~has(openRouterIds, ExactComposite)
                       /\ Cardinality(KeyMatches) >= 2
    IN  \A p \in Permutations(openRouterIds) :
          LET r == matchAAtoOpenRouterWithIds(aaSlug, aaCreatorSlug, p)
          IN  /\ distinctKeys => r = result
              /\ r # result => fallbackTie

\* C10's case: a set of several members without key collision, searched by
\* the fallback tier, which finds its match after a member that is none
C10_Witness ==
  /\ pc = "matched"
  /\ Len(openRouterIds) >= 2
  /\ NoKeyCollision
  /\ OverrideMisses
  /\ ~has(openRouterIds, ExactComposite)
  /\ result = <<openRouterIds[Len(openRouterIds)]>>
  /\ Slashes(result[1]) = 1
  /\ canonicalizeSlug(aaSlug) # <<>>

(***************************************************************************)
(* Matches of the entries of the Override Table, against the caller's set  *)
(* and against POPULAR_MODEL_IDS.                                          *)
(***************************************************************************)
\* openRouterId.split("/")[0]
creatorOf(id) == Split(id)[1]

InitOverrides ==
  /\ \E i \in DOMAIN MANUAL_OVERRIDES :
       /\ aaSlug = MANUAL_OVERRIDES[i][1]
       /\ aaCreatorSlug = creatorOf(MANUAL_OVERRIDES[i][2])
       /\ openRouterIds \in {ids \in NoDupSeqs(TargetPool \cup {MANUAL_OVERRIDES[i][2]}, MaxIds) :
                               has(ids, MANUAL_OVERRIDES[i][2])}
  /\ result = <<>>
  /\ aaModels = <<>>
  /\ matchingMap = <<>>
  /\ pc = "call"
  /\ NoCall

CallMatchAAtoOpenRouter ==
  /\ pc = "call"
  /\ result' = matchAAtoOpenRouter(aaSlug, aaCreatorSlug)
  /\ pc' = "matchedPopular"
  /\ UNCHANGED <<str, out, out2, aaSlug, aaCreatorSlug, openRouterIds, aaModels, matchingMap>>

NextOverrides ==
  \/ CallMatchWithIds
  \/ CallMatchAAtoOpenRouter

SpecOverrides == InitOverrides /\ [][NextOverrides]_vars

\* C4: every key of the Override Table is a fixed point of canonicalize, and
\* the match of a key with the creator of its target returns that target from
\* every set that holds the target, the singleton and POPULAR_MODEL_IDS in
\* particular.
C4_OverridesResolve ==
  /\ \A i \in DOMAIN MANUAL_OVERRIDES :
       canonicalizeSlug(MANUAL_OVERRIDES[i][1]) = MANUAL_OVERRIDES[i][1]
  /\ \A i \in DOMAIN MANUAL_OVERRIDES :
       (aaSlug = MANUAL_OVERRIDES[i][1] /\ aaCreatorSlug = creatorOf(MANUAL_OVERRIDES[i][2])) =>
         /\ (pc = "matched" /\ has(openRouterIds, MANUAL_OVERRIDES[i][2])) =>
              result = <<MANUAL_OVERRIDES[i][2]>>
         /\ (pc = "matchedPopular" /\ has(POPULAR_MODEL_IDS, MANUAL_OVERRIDES[i][2])) =>
              result = <<MANUAL_OVERRIDES[i][2]>>

\* C4's case: a key is matched against the singleton of its target, which
\* only the override tier can find
C4_Witness ==
  /\ pc = "matched"
  /\ Len(openRouterIds) = 1
  /\ result = <<openRouterIds[1]>>
  /\ ExactComposite # openRouterIds[1]
  /\ KeyMatches = {}

(***************************************************************************)
(* buildMatchingMap.                                                       *)
(***************************************************************************)
\* new Set(openRouterIds): the members in the order of their first occurrence
RECURSIVE SetOf(_)
SetOf(list) ==
  IF list = <<>> THEN <<>>
  ELSE LET rest == SetOf(Front(list))
       IN  IF has(rest, Last(list)) THEN rest ELSE Append(rest, Last(list))

\* matchingMap.set(key, value)
MapSet(map, key, value) ==
  [k \in DOMAIN map \cup {key} |-> IF k = key THEN value ELSE map[k]]

\* the loop over aaModels: a record whose match is truthy (neither null nor
\* the empty string) is entered under its slug
RECURSIVE BuildLoop(_, _, _)
BuildLoop(models, idSet, map) ==
  IF models = <<>> THEN map
  ELSE LET model == Head(models)
           matched == matchAAtoOpenRouterWithIds(model.slug, model.creator, idSet)
       IN  BuildLoop(Tail(models), idSet,
                     IF matched # <<>> /\ matched[1] # <<>>
                       THEN MapSet(map, model.slug, matched[1])
                       ELSE map)

buildMatchingMap(models, ids) == BuildLoop(models, SetOf(ids), <<>>)

\* source records given to buildMatchingMap: model.slug and model.model_creator.slug
RecordPool ==
  { (* "claude-3-5-sonnet" by "anthropic" *)
    [slug |-> <<"c","l","a","u","d","e","-","3","-","5","-","s","o","n","n","e","t">>,
     creator |-> <<"a","n","t","h","r","o","p","i","c">>],
    (* "gemini 2_5.flash" by "google" *)
    [slug |-> <<"g","e","m","i","n","i"," ","2","_","5",".","f","l","a","s","h">>,
     creator |-> <<"g","o","o","g","l","e">>],
    (* "unlisted-model" by "unknown" *)
    [slug |-> <<"u","n","l","i","s","t","e","d","-","m","o","d","e","l">>,
     creator |-> <<"u","n","k","n","o","w","n">>],
    (* "m" by "acme" *)
    [slug |-> <<"m">>,
     creator |-> <<"a","c","m","e">>],
    (* "m" by "beta" *)
    [slug |-> <<"m">>,
     creator |-> <<"b","e","t","a">>] }

\* target ids given to buildMatchingMap
BuildTargetPool ==
  { (* "anthropic/claude-3.5-sonnet" *)
    <<"a","n","t","h","r","o","p","i","c","/","c","l","a","u","d","e","-","3",".","5","-","s","o","n","n","e","t">>,
    (* "google/gemini-2.5-flash" *)
    <<"g","o","o","g","l","e","/","g","e","m","i","n","i","-","2",".","5","-","f","l","a","s","h">>,
    (* "openai/gpt-4o" *)
    <<"o","p","e","n","a","i","/","g","p","t","-","4","o">>,
    (* "acme/m" *)
    <<"a","c","m","e","/","m">>,
    (* "beta/m" *)
    <<"b","e","t","a","/","m">> }

InitBuild ==
  /\ aaModels \in SeqsUpTo(RecordPool, MaxRecords)
  /\ openRouterIds \in SeqsUpTo(BuildTargetPool, MaxIds)
  /\ matchingMap = <<>>
  /\ aaSlug = <<>>
  /\ aaCreatorSlug = <<>>
  /\ result = <<>>
  /\ pc = "build"
  /\ NoCall

CallBuildMatchingMap ==
  /\ pc = "build"
  /\ matchingMap' = buildMatchingMap(aaModels, openRouterIds)
  /\ pc' = "built"
  /\ UNCHANGED <<str, out, out2, aaSlug, aaCreatorSlug, openRouterIds, result, aaModels>>

NextBuild == CallBuildMatchingMap

SpecBuild == InitBuild /\ [][NextBuild]_vars

\* C5: every value of the returned map is one of the target ids given, so an
\* empty list of target ids gives an empty map.
C5_OnlyGivenTargets ==
  pc = "built" =>
    /\ \A k \in DOMAIN matchingMap : matchingMap[k] \in Range(openRouterIds)
    /\ openRouterIds = <<>> => DOMAIN matchingMap = {}

\* C5's case: a record of the Override Table whose target is not among the
\* ids given is left out, beside a record that is matched
C5_Witness ==
  /\ pc = "built"
  /\ DOMAIN matchingMap # {}
  /\ \E i \in DOMAIN aaModels :
       /\ manualOverride(aaModels[i].slug) # <<>>
       /\ ~has(openRouterIds, manualOverride(aaModels[i].slug)[1])
       /\ aaModels[i].slug \notin DOMAIN matchingMap

\* the orders of a list
Reorderings(list) ==
  {[i \in DOMAIN list |-> list[f[i]]] :
     f \in {g \in [DOMAIN list -> DOMAIN list] : Range(g) = DOMAIN list}}

\* the entries of map b written into map a
Merge(a, b) == [k \in DOMAIN a \cup DOMAIN b |-> IF k \in DOMAIN b THEN b[k] ELSE a[k]]

\* C9: the map does not depend on the order of the source records, nor on
\* their sharding: every permutation of the records gives the same map, and
\* so do the maps of two shards merged in either order.
C9_OrderAndShardIndependent ==
  pc = "built" =>
    /\ \A p \in Reorderings(aaModels) : buildMatchingMap(p, openRouterIds) = matchingMap
    /\ \A k \in 0..Len(aaModels) :
         LET a == buildMatchingMap(SubSeq(aaModels, 1, k), openRouterIds)
             b == buildMatchingMap(SubSeq(aaModels, k + 1, Len(aaModels)), openRouterIds)
         IN  Merge(a, b) = matchingMap /\ Merge(b, a) = matchingMap

====
